---- MODULE Spec2Model ----
(***************************************************************************)
(* Model of the model-abstraction layer of Ax: the flat facade             *)
(* (ax/models/torch/botorch.py, class BotorchModel) and the modular facade *)
(* (ax/models/torch/botorch_modular/model.py, class BoTorchModel).         *)
(*                                                                         *)
(* A facade call is synchronous.  fit, predict, update, cross_validate and *)
(* best_point are one action each; gen is split at its try/except so that  *)
(* the fallback protocol is visible: gen (lines 325-359), gen_try (396),   *)
(* gen_except (397-404), gen_fallback (400-402), gen_return (406-411).     *)
(* Collaborators (model constructor, predictor, resolver, subsetter,       *)
(* acquisition constructor, optimizer, recommender) are external: every    *)
(* invocation is appended to `calls` with the arguments it received, and   *)
(* its outcome (a value or a raised error) is chosen nondeterministically. *)
(***************************************************************************)
EXTENDS Integers, Sequences, FiniteSets, TLC

VARIABLES
    variant,                \* which facade class this instance is
    \* ---- BotorchModel fields (botorch.py 252-271)
    model, Xs, Ys, Yvars, dtype, device,
    task_features, fidelity_features, metric_names,
    refit_on_cv, refit_on_update, warm_start_refitting,
    \* ---- BoTorchModel fields (botorch_modular/model.py 74-82)
    m_surrogate, m_botorch_acqf_class, surrogate_fit_options,
    \* ---- the call in progress and its record
    pc,                     \* position inside gen, "idle" between calls
    frame,                  \* locals of the gen call in progress
    calls,                  \* collaborator invocations of the current/last call
    last                    \* the current/last facade call and its outcome

flatVars == <<model, Xs, Ys, Yvars, dtype, device,
              task_features, fidelity_features, metric_names>>
flagVars == <<refit_on_cv, refit_on_update, warm_start_refitting>>
modVars  == <<m_surrogate, m_botorch_acqf_class, surrogate_fit_options>>
vars == <<variant, flatVars, flagVars, modVars, pc, frame, calls, last>>

(***************************************************************************)
(* Python values.  Optional[T] is a sequence of length 0 (None) or 1.      *)
(***************************************************************************)
None == <<>>
Some(x) == <<x>>

\* dict.get(key, default) on a dict modelled as a function
Get(dict, key, default) == IF key \in DOMAIN dict THEN dict[key] ELSE default

\* a check that never fires
Truthy_never(optdict) == FALSE

\* Python truthiness of an Optional[Dict]: None and {} are falsy
Truthy(optdict) == optdict # None /\ DOMAIN optdict[1] # {}

(***************************************************************************)
(* Bounds of the model.                                                    *)
(***************************************************************************)
MaxData == 2        \* distinct observation sets offered to fit/update/cv
MaxN == 2           \* largest number of candidates requested from gen

DataIds == 1..MaxData
Outcomes == {1, 2}                  \* outcomes of every observation set
Columns == {0, 1}                   \* input columns (Python indices)
Dim == Cardinality(Columns)         \* Xs[0].size(-1)
Coords == {0, 1}                    \* coordinate values of a candidate point

(***************************************************************************)
(* Tensors.  A training tensor is identified by its role, the observation  *)
(* set it belongs to and its outcome.                                      *)
(***************************************************************************)
DtypeOf(d) == IF d % 2 = 1 THEN "float64" ELSE "float32"
DeviceOf(d) == IF d % 2 = 1 THEN "cpu" ELSE "cuda"
TrainTensor(role, d) ==
    [o \in Outcomes |-> [role |-> role, data |-> d, outcome |-> o,
                         dtype |-> DtypeOf(d), device |-> DeviceOf(d)]]
XsOf(d) == TrainTensor("X", d)
YsOf(d) == TrainTensor("Y", d)
YvarsOf(d) == TrainTensor("Yvar", d)
MetricNamesOf(d) == IF d % 2 = 1 THEN <<"m1", "m2">> ELSE <<"a", "b">>
TestX == [role |-> "X_test"]

(***************************************************************************)
(* Errors.  A message is a sequence of text fragments; `in` on strings is  *)
(* containment of a contiguous run of fragments.                           *)
(***************************************************************************)
Contains(msg, pat) ==
    \E i \in 0..(Len(msg) - Len(pat)) : SubSeq(msg, i + 1, i + Len(pat)) = pat

SobolText == <<"SobolQMCSampler only supports dimensions q * o <= 1111">>

ErrSobol == [type |-> "UnsupportedError",
             msg |-> SobolText \o <<". Requested: 1200">>]
ErrUnsupportedOther == [type |-> "UnsupportedError", msg |-> <<"not supported">>]
ErrOtherType == [type |-> "RuntimeError", msg |-> SobolText]
ErrCollab == [type |-> "ValueError", msg |-> <<"collaborator failed">>]

\* errors the facade itself raises
ErrCannotUpdate ==
    [type |-> "RuntimeError",
     msg |-> <<"Cannot update model that has not been fitted">>]
ErrCannotCV ==
    [type |-> "RuntimeError",
     msg |-> <<"Cannot cross-validate model that has not been fitted">>]
ErrTargetFidelities ==
    [type |-> "NotImplementedError",
     msg |-> <<"target_fidelities not implemented for base BotorchModel">>]
ErrKwargTwice ==
    [type |-> "TypeError",
     msg |-> <<"got multiple values for keyword argument 'qmc'">>]
ErrCheckedCast == [type |-> "ValueError", msg |-> <<"checked_cast">>]

Return(v) == [status |-> "return", value |-> v]
Raise(e) == [status |-> "raise", error |-> e]

(***************************************************************************)
(* normalize_indices(indices, d): negative indices count from the end.     *)
(***************************************************************************)
RECURSIVE Dedup(_)
Dedup(s) ==
    IF s = <<>> THEN <<>>
    ELSE LET r == Dedup(SubSeq(s, 1, Len(s) - 1))
             x == s[Len(s)]
         IN IF \E i \in 1..Len(r) : r[i] = x THEN r ELSE Append(r, x)

normalize_indices(indices, d) ==
    Dedup([i \in 1..Len(indices) |->
              IF indices[i] < 0 THEN indices[i] + d ELSE indices[i]])

(***************************************************************************)
(* The model constructor collaborator.  The model it returns is identified *)
(* by the arguments it was built from; `params` abstracts its parameters:  *)
(* fitted cold on the data, fitted warm from a snapshot, or loaded from    *)
(* the snapshot unchanged when refitting is off.                           *)
(***************************************************************************)
ParamsOf(kw) ==
    IF kw.state_dict = None
    THEN [data |-> kw.Xs[1].data, start |-> "cold"]
    ELSE IF kw.refit_model = Some(FALSE)
         THEN kw.state_dict[1].params
         ELSE [data |-> kw.Xs[1].data, start |-> "warm"]

ConstructedModel(kw) ==
    [Xs |-> kw.Xs, Ys |-> kw.Ys, Yvars |-> kw.Yvars,
     task_features |-> kw.task_features,
     fidelity_features |-> kw.fidelity_features,
     metric_names |-> kw.metric_names,
     outputs |-> [i \in 1..Len(kw.Ys) |-> i],
     params |-> ParamsOf(kw)]

\* model.state_dict(): the live parameter snapshot of a model
state_dict(m) == [params |-> m.params, obj |-> "live"]
\* copy.deepcopy of a snapshot: equal contents, a different object
deepcopy(sd) == [params |-> sd.params, obj |-> "copy"]

\* one collaborator invocation: what was called, with what, and how it ended
Call(fn, kw, out) == [fn |-> fn, kw |-> kw, out |-> out]

(***************************************************************************)
(* Facade fields, and the record of a call.                                *)
(***************************************************************************)
Fields ==
    [model |-> model, Xs |-> Xs, Ys |-> Ys, Yvars |-> Yvars,
     dtype |-> dtype, device |-> device,
     task_features |-> task_features,
     fidelity_features |-> fidelity_features,
     metric_names |-> metric_names,
     refit_on_cv |-> refit_on_cv, refit_on_update |-> refit_on_update,
     warm_start_refitting |-> warm_start_refitting,
     m_surrogate |-> m_surrogate,
     m_botorch_acqf_class |-> m_botorch_acqf_class,
     surrogate_fit_options |-> surrogate_fit_options]

Record(op, args, out) == [variant |-> variant, op |-> op, args |-> args, out |-> out]
Running == [status |-> "running"]

\* a call that runs to completion in one step
Finish(op, args, invoked, out) ==
    /\ calls' = invoked
    /\ last' = Record(op, args, out)
    /\ pc' = "idle"
    /\ frame' = None

(***************************************************************************)
(* Collaborator outcomes.                                                  *)
(***************************************************************************)
\* model constructor: returns the fitted model or raises
ConstructorOutcomes(kw) == {Return(ConstructedModel(kw)), Raise(ErrCollab)}

\* model predictor: posterior moments of `m` at X; without a model it can
\* only fail
ErrNoModel == [type |-> "AttributeError", msg |-> <<"NoneType">>]
Posterior(m, X) == [mean |-> [params |-> m.params, outputs |-> m.outputs, X |-> X],
                    cov |-> [params |-> m.params, outputs |-> m.outputs, X |-> X]]
PredictorOutcomes(kw) ==
    IF kw.model = None THEN {Raise(ErrNoModel)}
    ELSE {Return(Posterior(kw.model[1], kw.X)), Raise(ErrCollab)}

(***************************************************************************)
(* BotorchModel.__init__ (botorch.py 252-271) and BoTorchModel.__init__.   *)
(***************************************************************************)
FlatInit ==
    /\ model = None
    /\ Xs = <<>> /\ Ys = <<>> /\ Yvars = <<>>
    /\ dtype = None /\ device = None
    /\ task_features = <<>> /\ fidelity_features = <<>> /\ metric_names = <<>>

(***************************************************************************)
(* BotorchModel.fit (botorch.py 283-305).                                  *)
(***************************************************************************)
\* search_space_digest values offered to fit
Digests == {[task_features |-> <<>>, fidelity_features |-> <<>>],
            [task_features |-> <<-1>>, fidelity_features |-> <<0>>]}
DigestsBasic == {[task_features |-> <<-1>>, fidelity_features |-> <<0>>]}

\* a fit seeded from the model it replaces
fit_kwargs_warm(Xs_, Ys_, Yvars_, tf, ff, mn) ==
    [Xs |-> Xs_, Ys |-> Ys_, Yvars |-> Yvars_,
     task_features |-> tf, fidelity_features |-> ff, metric_names |-> mn,
     state_dict |-> IF model = None THEN None
                    ELSE Some(deepcopy(state_dict(model[1]))),
     refit_model |-> None]

fit_kwargs(Xs_, Ys_, Yvars_, tf, ff, mn) ==
    [Xs |-> Xs_, Ys |-> Ys_, Yvars |-> Yvars_,
     task_features |-> tf, fidelity_features |-> ff, metric_names |-> mn,
     state_dict |-> None, refit_model |-> None]

fit_on(digests) ==
    /\ variant = "flat" /\ pc = "idle"
    /\ \E d \in DataIds, dg \in digests :
         LET ntf == normalize_indices(dg.task_features, Dim)
             nff == normalize_indices(dg.fidelity_features, Dim)
             kw == fit_kwargs(XsOf(d), YsOf(d), YvarsOf(d), ntf, nff,
                              MetricNamesOf(d))
         IN  /\ dtype' = Some(XsOf(d)[1].dtype)
             /\ device' = Some(XsOf(d)[1].device)
             /\ Xs' = XsOf(d) /\ Ys' = YsOf(d) /\ Yvars' = YvarsOf(d)
             /\ task_features' = ntf
             /\ fidelity_features' = nff
             /\ metric_names' = MetricNamesOf(d)
             /\ \E o \in ConstructorOutcomes(kw) :
                  /\ model' = IF o.status = "return" THEN Some(o.value) ELSE model
                  /\ Finish("fit", [data |-> d, digest |-> dg],
                            <<Call("model_constructor", kw, o)>>,
                            IF o.status = "return" THEN Return(None) ELSE o)
    /\ UNCHANGED <<variant, flagVars, modVars>>

fit == fit_on(Digests)

(***************************************************************************)
(* BotorchModel.predict (botorch.py 309).                                  *)
(***************************************************************************)
predict_kwargs(model_, X) == [model |-> model_, X |-> X]

predict ==
    /\ variant = "flat" /\ pc = "idle"
    /\ LET kw == predict_kwargs(model, TestX)
       IN \E o \in PredictorOutcomes(kw) :
            Finish("predict", [X |-> TestX], <<Call("model_predictor", kw, o)>>, o)
    /\ UNCHANGED <<variant, flatVars, flagVars, modVars>>

(***************************************************************************)
(* BotorchModel.cross_validate (botorch.py 445-464).                       *)
(***************************************************************************)
\* cross_validate handing over the live snapshot itself
cv_state_dict_shared(refit_on_cv_, model_) ==
    IF refit_on_cv_ THEN None ELSE Some(state_dict(model_[1]))

cv_state_dict(refit_on_cv_, model_) ==
    IF refit_on_cv_ THEN None ELSE Some(deepcopy(state_dict(model_[1])))

\* cross_validate refitting as update is configured to
cv_kwargs_update_flag(Xs_train, Ys_train, Yvars_train, tf, ff, mn, sd, refit_on_cv_) ==
    [Xs |-> Xs_train, Ys |-> Ys_train, Yvars |-> Yvars_train,
     task_features |-> tf, fidelity_features |-> ff, metric_names |-> mn,
     state_dict |-> sd, refit_model |-> Some(refit_on_update)]

\* cross_validate ignoring the recorded feature metadata
cv_kwargs_no_metadata(Xs_train, Ys_train, Yvars_train, tf, ff, mn, sd, refit_on_cv_) ==
    [Xs |-> Xs_train, Ys |-> Ys_train, Yvars |-> Yvars_train,
     task_features |-> <<>>, fidelity_features |-> <<>>, metric_names |-> mn,
     state_dict |-> sd, refit_model |-> Some(refit_on_cv_)]

cv_kwargs(Xs_train, Ys_train, Yvars_train, tf, ff, mn, sd, refit_on_cv_) ==
    [Xs |-> Xs_train, Ys |-> Ys_train, Yvars |-> Yvars_train,
     task_features |-> tf, fidelity_features |-> ff, metric_names |-> mn,
     state_dict |-> sd, refit_model |-> Some(refit_on_cv_)]

cross_validate ==
    /\ variant = "flat" /\ pc = "idle"
    /\ \E d \in DataIds :
         LET args == [data |-> d, X_test |-> TestX] IN
         IF model = None
         THEN Finish("cross_validate", args, <<>>, Raise(ErrCannotCV))
         ELSE LET sd == cv_state_dict(refit_on_cv, model)
                  kw == cv_kwargs(XsOf(d), YsOf(d), YvarsOf(d), task_features,
                                  fidelity_features, metric_names, sd,
                                  refit_on_cv)
              IN \E o \in ConstructorOutcomes(kw) :
                   IF o.status = "raise"
                   THEN Finish("cross_validate", args,
                               <<Call("model_constructor", kw, o)>>, o)
                   ELSE LET pkw == predict_kwargs(Some(o.value), TestX)
                        IN \E p \in PredictorOutcomes(pkw) :
                             Finish("cross_validate", args,
                                    <<Call("model_constructor", kw, o),
                                      Call("model_predictor", pkw, p)>>, p)
    /\ UNCHANGED <<variant, flatVars, flagVars, modVars>>

(***************************************************************************)
(* BotorchModel.update (botorch.py 475-496).                               *)
(***************************************************************************)
\* update always seeding from the previous snapshot
update_state_dict_always_warm(refit_on_update_, warm_start_refitting_, model_) ==
    Some(deepcopy(state_dict(model_[1])))

\* update never seeding from the previous snapshot
update_state_dict_always_cold(refit_on_update_, warm_start_refitting_, model_) ==
    None

update_state_dict(refit_on_update_, warm_start_refitting_, model_) ==
    IF refit_on_update_ /\ ~warm_start_refitting_
    THEN None
    ELSE Some(deepcopy(state_dict(model_[1])))

\* update building the model from the observations stored before the call
update_kwargs_stored(Xs_, Ys_, Yvars_, tf, ff, mn, sd, refit_on_update_) ==
    [Xs |-> Xs, Ys |-> Ys, Yvars |-> Yvars,
     task_features |-> tf, fidelity_features |-> ff, metric_names |-> mn,
     state_dict |-> sd, refit_model |-> Some(refit_on_update_)]

update_kwargs(Xs_, Ys_, Yvars_, tf, ff, mn, sd, refit_on_update_) ==
    [Xs |-> Xs_, Ys |-> Ys_, Yvars |-> Yvars_,
     task_features |-> tf, fidelity_features |-> ff, metric_names |-> mn,
     state_dict |-> sd, refit_model |-> Some(refit_on_update_)]

\* update storing the observations before it looks at the model
update_unfitted_stores_first(d) ==
    /\ Xs' = XsOf(d) /\ Ys' = YsOf(d) /\ Yvars' = YvarsOf(d)
    /\ Finish("update", [data |-> d], <<>>, Raise(ErrCannotUpdate))
    /\ UNCHANGED <<model, dtype, device, task_features, fidelity_features,
                   metric_names>>

\* lines 475-476: nothing is touched when there is no model
update_unfitted(d) ==
    /\ Finish("update", [data |-> d], <<>>, Raise(ErrCannotUpdate))
    /\ UNCHANGED flatVars

\* update losing the live model when the constructor fails
update_fitted_dropping(d) ==
    LET sd == update_state_dict(refit_on_update, warm_start_refitting, model)
        kw == update_kwargs(XsOf(d), YsOf(d), YvarsOf(d), task_features,
                            fidelity_features, metric_names, sd, refit_on_update)
    IN /\ Xs' = XsOf(d) /\ Ys' = YsOf(d) /\ Yvars' = YvarsOf(d)
       /\ \E o \in ConstructorOutcomes(kw) :
            /\ model' = IF o.status = "return" THEN Some(o.value) ELSE None
            /\ Finish("update", [data |-> d], <<Call("model_constructor", kw, o)>>,
                      IF o.status = "return" THEN Return(None) ELSE o)
       /\ UNCHANGED <<dtype, device, task_features, fidelity_features,
                      metric_names>>

\* lines 477-496
update_fitted(d) ==
    LET sd == update_state_dict(refit_on_update, warm_start_refitting, model)
        kw == update_kwargs(XsOf(d), YsOf(d), YvarsOf(d), task_features,
                            fidelity_features, metric_names, sd, refit_on_update)
    IN /\ Xs' = XsOf(d) /\ Ys' = YsOf(d) /\ Yvars' = YvarsOf(d)
       /\ \E o \in ConstructorOutcomes(kw) :
            /\ model' = IF o.status = "return" THEN Some(o.value) ELSE model
            /\ Finish("update", [data |-> d],
                      <<Call("model_constructor", kw, o)>>,
                      IF o.status = "return" THEN Return(None) ELSE o)
       /\ UNCHANGED <<dtype, device, task_features, fidelity_features,
                      metric_names>>

update ==
    /\ variant = "flat" /\ pc = "idle"
    /\ \E d \in DataIds :
         IF model = None THEN update_unfitted(d) ELSE update_fitted(d)
    /\ UNCHANGED <<variant, flagVars, modVars>>

(***************************************************************************)
(* Inputs of gen and best_point.  A dict is a function on its keys; a      *)
(* tensor pair (A, b) is a record.  Each set below varies one group of     *)
(* arguments around DefaultInput.                                          *)
(***************************************************************************)
EmptyDict == [k \in {} |-> 0]
KeyAcqf == "acquisition_function_kwargs"    \* Keys.ACQF_KWARGS
KeyOpt == "optimizer_kwargs"                \* Keys.OPTIMIZER_KWARGS
KeySubset == "subset_model"                 \* Keys.SUBSET_MODEL

UnitBounds == <<<<0, 1>>, <<0, 1>>>>
PinnedBounds == <<<<0, 0>>, <<1, 1>>>>
SumAtMostOne == [A |-> <<<<1, 1>>>>, b |-> <<1>>]     \* x0 + x1 <= 1
SecondOutcomeAtMostOne == [A |-> <<<<0, 1>>>>, b |-> <<1>>]
PendingRows == [o \in Outcomes |-> [role |-> "pending", outcome |-> o]]

DefaultInput ==
    [n |-> 1, bounds |-> UnitBounds,
     objective_weights |-> <<1, 0>>, outcome_constraints |-> None,
     linear_constraints |-> None, fixed_features |-> None,
     pending_observations |-> None, model_gen_options |-> None,
     rounding_func |-> None, target_fidelities |-> None]

SearchSpaceInputs ==
    {[DefaultInput EXCEPT !.n = n, !.bounds = b, !.linear_constraints = lc,
                          !.fixed_features = ff] :
        n \in 1..MaxN, b \in {UnitBounds, PinnedBounds},
        lc \in {None, Some(SumAtMostOne)}, ff \in {None, Some(0 :> 1)}}

ObjectiveInputs ==
    {[DefaultInput EXCEPT !.objective_weights = w, !.outcome_constraints = oc,
                          !.model_gen_options = o] :
        w \in {<<1, 0>>, <<1, 1>>},
        oc \in {None, Some(SecondOutcomeAtMostOne)},
        o \in {None, Some(KeySubset :> TRUE), Some(KeySubset :> FALSE)}}

OptionInputs ==
    {[DefaultInput EXCEPT !.model_gen_options = o] :
        o \in {Some(EmptyDict),
               Some(KeyAcqf :> ("qmc" :> TRUE)),
               Some(KeyAcqf :> ("mc_samples" :> 8)),
               Some(KeyOpt :> ("num_restarts" :> 2))}}

OtherInputs ==
    {[DefaultInput EXCEPT !.rounding_func = r, !.pending_observations = pend,
                          !.target_fidelities = tf] :
        r \in {None, Some("snap_to_grid")},
        pend \in {None, Some(PendingRows)},
        tf \in {None, Some(EmptyDict), Some(1 :> 1)}}

GenInputs == SearchSpaceInputs \cup ObjectiveInputs \cup OptionInputs
                \cup OtherInputs
GenInputsBasic ==
    {[DefaultInput EXCEPT !.bounds = PinnedBounds, !.target_fidelities = tf] :
        tf \in {None, Some(1 :> 1)}}

(***************************************************************************)
(* Helpers of gen that live outside botorch.py.                            *)
(***************************************************************************)
\* _get_X_pending_and_observed: the observed rows kept for the objective
\* and the pending rows; no pending list yields no X_pending
ResolverResult(kw) ==
    [X_pending |-> IF kw.pending_observations = None THEN None
                   ELSE Some([rows |-> kw.pending_observations[1]]),
     X_observed |-> Some([rows |-> kw.Xs, bounds |-> kw.bounds,
                          fixed_features |-> kw.fixed_features])]
ResolverOutcomes(kw) == {Return(ResolverResult(kw)), Raise(ErrCollab)}

\* subset_model: keep the outcomes with nonzero objective weight or used by
\* an outcome constraint; return the arguments unchanged when all are kept
RECURSIVE Restrict(_, _)
Restrict(seq, keep) ==
    IF seq = <<>> THEN <<>>
    ELSE LET r == Restrict(SubSeq(seq, 1, Len(seq) - 1), keep)
         IN IF Len(seq) \in keep THEN Append(r, seq[Len(seq)]) ELSE r

RelevantOutcomes(w, oc) ==
    {i \in 1..Len(w) :
        \/ w[i] # 0
        \/ oc # None /\ \E r \in 1..Len(oc[1].A) : oc[1].A[r][i] # 0}

SubsetResult(kw) ==
    LET keep == RelevantOutcomes(kw.objective_weights, kw.outcome_constraints)
        m == kw.model[1]
    IN IF keep = 1..Len(kw.objective_weights)
       THEN [model |-> kw.model,
             objective_weights |-> kw.objective_weights,
             outcome_constraints |-> kw.outcome_constraints]
       ELSE [model |-> Some([m EXCEPT !.outputs = Restrict(m.outputs, keep)]),
             objective_weights |-> Restrict(kw.objective_weights, keep),
             outcome_constraints |->
                 IF kw.outcome_constraints = None THEN None
                 ELSE LET oc == kw.outcome_constraints[1]
                      IN Some([A |-> [r \in 1..Len(oc.A) |->
                                          Restrict(oc.A[r], keep)],
                               b |-> oc.b])]
SubsetOutcomes(kw) ==
    IF kw.model = None THEN {Raise(ErrNoModel)}
    ELSE {Return(SubsetResult(kw)), Raise(ErrCollab)}

\* _to_inequality_constraints: A x <= b becomes, per row, the indices of the
\* nonzero coefficients with  sum(-A[idx] * x[idx]) >= -b
NonzeroColumns(row) ==
    Restrict([i \in 1..Len(row) |-> i - 1], {i \in 1..Len(row) : row[i] # 0})
to_inequality_constraints(lc) ==
    IF lc = None THEN None
    ELSE Some([r \in 1..Len(lc[1].A) |->
                 LET idx == NonzeroColumns(lc[1].A[r])
                 IN [indices |-> idx,
                     coefficients |-> [k \in 1..Len(idx) |->
                                          0 - lc[1].A[r][idx[k] + 1]],
                     rhs |-> 0 - lc[1].b[r]]])

\* torch.tensor(bounds, dtype, device).transpose(0, 1): row 1 the lower
\* bounds, row 2 the upper bounds
bounds_tensor(bounds, dtype_, device_) ==
    [data |-> <<[i \in 1..Len(bounds) |-> bounds[i][1]],
                [i \in 1..Len(bounds) |-> bounds[i][2]]>>,
     dtype |-> dtype_, device |-> device_]

(***************************************************************************)
(* get_rounding_func (botorch.py 518-532).                                 *)
(***************************************************************************)
\* a wrapper handed out even when there is nothing to wrap
get_rounding_func_always(rounding_func) ==
    IF rounding_func = None THEN Some([botorch_rounding_func |-> "identity"])
    ELSE Some([botorch_rounding_func |-> rounding_func[1]])

get_rounding_func(rounding_func) ==
    IF rounding_func = None THEN rounding_func
    ELSE Some([botorch_rounding_func |-> rounding_func[1]])

(***************************************************************************)
(* The wrapper returned by get_rounding_func (botorch.py 525-530).  A      *)
(* batch tensor is its shape and its elements in row-major order.          *)
(***************************************************************************)
RECURSIVE Flatten(_)
Flatten(rows) ==
    IF rows = <<>> THEN <<>>
    ELSE Flatten(SubSeq(rows, 1, Len(rows) - 1)) \o rows[Len(rows)]

\* X.view(-1, d): the rows of the flattened batch
view_rows(X, d) ==
    [r \in 1..(Len(X.data) \div d) |-> SubSeq(X.data, (r - 1) * d + 1, r * d)]

\* torch.stack of a list of d-vectors
stack(rows) == [shape |-> <<Len(rows), Len(rows[1])>>, data |-> Flatten(rows)]

\* t.view(*shape)
view(t, shape) == [shape |-> shape, data |-> t.data]

\* per-point rounding functions a caller can supply
RoundingFuncs == {"snap_to_grid", "swap", "spread_first"}
ApplyRounding(f, x) ==
    IF f = "snap_to_grid" THEN [k \in 1..Len(x) |-> 2 * (x[k] \div 2)]
    ELSE IF f = "swap" THEN [k \in 1..Len(x) |-> x[Len(x) + 1 - k]]
    ELSE [k \in 1..Len(x) |-> x[1]]

\* a wrapper that reassembles the rounded rows in reverse order
botorch_rounding_func_reversed(rounding_func, X) ==
    LET batch_shape == SubSeq(X.shape, 1, Len(X.shape) - 1)
        d == X.shape[Len(X.shape)]
        rows == view_rows(X, d)
        X_round == stack([i \in 1..Len(rows) |->
                             ApplyRounding(rounding_func, rows[Len(rows) + 1 - i])])
    IN view(X_round, batch_shape \o <<d>>)

botorch_rounding_func(rounding_func, X) ==
    LET batch_shape == SubSeq(X.shape, 1, Len(X.shape) - 1)
        d == X.shape[Len(X.shape)]
        rows == view_rows(X, d)
        X_round == stack([i \in 1..Len(rows) |->
                             ApplyRounding(rounding_func, rows[i])])
    IN view(X_round, batch_shape \o <<d>>)

(***************************************************************************)
(* The acquisition constructor and the optimizer.                          *)
(***************************************************************************)
AttemptErrors == {ErrSobol, ErrUnsupportedOther, ErrOtherType}

AcqfOutcomes(kw) ==
    {Return([is_acqf |-> TRUE, kw |-> kw]),
     Return([is_acqf |-> FALSE, kw |-> kw])} \cup {Raise(e) : e \in AttemptErrors}

RECURSIVE Dot(_, _, _)
Dot(coefficients, indices, x) ==
    IF coefficients = <<>> THEN 0
    ELSE LET k == Len(coefficients)
         IN coefficients[k] * x[indices[k] + 1]
            + Dot(SubSeq(coefficients, 1, k - 1), SubSeq(indices, 1, k - 1), x)

Points == [1..Dim -> Coords]

\* the optimizer's contract: points inside `bounds`, satisfying every
\* inequality constraint and every fixed feature
Admissible(x, kw) ==
    /\ \A i \in 1..Dim : kw.bounds.data[1][i] <= x[i] /\ x[i] <= kw.bounds.data[2][i]
    /\ kw.inequality_constraints # None =>
         \A r \in 1..Len(kw.inequality_constraints[1]) :
            LET c == kw.inequality_constraints[1][r]
            IN Dot(c.coefficients, c.indices, x) >= c.rhs
    /\ kw.fixed_features # None =>
         \A col \in DOMAIN kw.fixed_features[1] :
            x[col + 1] = kw.fixed_features[1][col]

RECURSIVE SumSeq(_)
SumSeq(s) == IF s = <<>> THEN 0 ELSE s[Len(s)] + SumSeq(SubSeq(s, 1, Len(s) - 1))

\* value of the acquisition function at a batch: differs between the QMC
\* and the plain Monte-Carlo acquisition function
AcqfValue(acqf, batch) ==
    SumSeq([i \in 1..Len(batch) |-> SumSeq(batch[i])])
      + (IF Get(acqf.kw.options, "qmc", TRUE) THEN 0 ELSE 100)

OptimizerOutcomes(kw) ==
    {Return([candidates |-> [data |-> batch, device |-> kw.bounds.device,
                             requires_grad |-> TRUE],
             expected_acquisition_value |->
                 [data |-> AcqfValue(kw.acq_function, batch),
                  device |-> kw.bounds.device]]) :
        batch \in [1..kw.n -> {x \in Points : Admissible(x, kw)}]}
      \cup {Raise(e) : e \in AttemptErrors}

(***************************************************************************)
(* BotorchModel.gen.make_and_optimize_acqf (botorch.py 367-393): the set   *)
(* of its possible runs, each the invocations made and the outcome.        *)
(***************************************************************************)
\* the retry forgetting to switch qmc off
add_kwargs_ignored(override_qmc) == EmptyDict

\* every attempt built without qmc
add_kwargs_always(override_qmc) == "qmc" :> FALSE

add_kwargs(override_qmc) == IF override_qmc THEN ("qmc" :> FALSE) ELSE EmptyDict

\* the constructor given the live model and the caller's objective as they
\* were before subsetting
acqf_kwargs_unsubsetted(fr, override_qmc) ==
    [model |-> model,
     objective_weights |-> last.args.objective_weights,
     outcome_constraints |-> last.args.outcome_constraints,
     X_observed |-> fr.X_observed,
     X_pending |-> fr.X_pending,
     options |-> fr.acf_options @@ add_kwargs(override_qmc)]

acqf_kwargs(fr, override_qmc) ==
    [model |-> fr.model,
     objective_weights |-> fr.objective_weights,
     outcome_constraints |-> fr.outcome_constraints,
     X_observed |-> fr.X_observed,
     X_pending |-> fr.X_pending,
     options |-> fr.acf_options @@ add_kwargs(override_qmc)]

\* the optimizer called without the caller's fixed features
optimizer_kwargs_no_fixed(fr, args, acqf) ==
    [acq_function |-> acqf,
     bounds |-> fr.bounds_,
     n |-> args.n,
     inequality_constraints |-> to_inequality_constraints(args.linear_constraints),
     fixed_features |-> None,
     rounding_func |-> fr.botorch_rounding_func,
     options |-> fr.optimizer_options]

optimizer_kwargs(fr, args, acqf) ==
    [acq_function |-> acqf,
     bounds |-> fr.bounds_,
     n |-> args.n,
     inequality_constraints |-> to_inequality_constraints(args.linear_constraints),
     fixed_features |-> args.fixed_features,
     rounding_func |-> fr.botorch_rounding_func,
     options |-> fr.optimizer_options]

Run(invoked, out) == [calls |-> invoked, out |-> out]

make_and_optimize_acqf(fr, args, override_qmc) ==
    IF DOMAIN fr.acf_options \cap DOMAIN add_kwargs(override_qmc) # {}
    THEN {Run(<<>>, Raise(ErrKwargTwice))}     \* f(**a, **b) with a shared key
    ELSE LET ckw == acqf_kwargs(fr, override_qmc)
         IN UNION {
              LET c == Call("acqf_constructor", ckw, a) IN
              IF a.status = "raise" THEN {Run(<<c>>, a)}
              ELSE IF ~a.value.is_acqf
                   THEN {Run(<<c>>, Raise(ErrCheckedCast))}
                   ELSE LET okw == optimizer_kwargs(fr, args, a.value)
                        IN {Run(<<c, Call("acqf_optimizer", okw, o)>>, o) :
                               o \in OptimizerOutcomes(okw)}
              : a \in AcqfOutcomes(ckw)}

(***************************************************************************)
(* BotorchModel.gen (botorch.py 325-411).                                  *)
(***************************************************************************)
resolver_kwargs(args, Xs_) ==
    [Xs |-> Xs_,
     pending_observations |-> args.pending_observations,
     objective_weights |-> args.objective_weights,
     outcome_constraints |-> args.outcome_constraints,
     bounds |-> args.bounds,
     linear_constraints |-> args.linear_constraints,
     fixed_features |-> args.fixed_features]

\* the subsetter asked about the first objective weight only
subset_kwargs_first_weight(args, model_) ==
    [model |-> model_,
     objective_weights |->
         [i \in 1..Len(args.objective_weights) |->
             IF i = 1 THEN args.objective_weights[i] ELSE 0],
     outcome_constraints |-> args.outcome_constraints]

subset_kwargs(args, model_) ==
    [model |-> model_,
     objective_weights |-> args.objective_weights,
     outcome_constraints |-> args.outcome_constraints]

Locals(args, resolved, sub) ==
    LET options == IF args.model_gen_options = None THEN EmptyDict
                   ELSE args.model_gen_options[1]
    IN [acf_options |-> Get(options, KeyAcqf, EmptyDict),
        optimizer_options |-> Get(options, KeyOpt, EmptyDict),
        X_pending |-> resolved.X_pending,
        X_observed |-> resolved.X_observed,
        model |-> sub.model,
        objective_weights |-> sub.objective_weights,
        outcome_constraints |-> sub.outcome_constraints,
        bounds_ |-> bounds_tensor(args.bounds, dtype, device),
        botorch_rounding_func |-> get_rounding_func(args.rounding_func),
        exc |-> None,
        result |-> None]

\* lines 325-359: option parsing, the target_fidelities check, the resolver
\* and the subsetter
gen_with(inputs) ==
    /\ variant = "flat" /\ pc = "idle"
    /\ \E args \in inputs :
         LET options == IF args.model_gen_options = None THEN EmptyDict
                        ELSE args.model_gen_options[1]
             rkw == resolver_kwargs(args, Xs)
             skw == subset_kwargs(args, model)
         IN IF Truthy(args.target_fidelities)
            THEN Finish("gen", args, <<>>, Raise(ErrTargetFidelities))
            ELSE \E r \in ResolverOutcomes(rkw) :
                   LET rc == Call("get_X_pending_and_observed", rkw, r) IN
                   IF r.status = "raise"
                   THEN Finish("gen", args, <<rc>>, r)
                   ELSE IF Get(options, KeySubset, TRUE)
                        THEN \E sb \in SubsetOutcomes(skw) :
                               LET sc == Call("subset_model", skw, sb) IN
                               IF sb.status = "raise"
                               THEN Finish("gen", args, <<rc, sc>>, sb)
                               ELSE /\ pc' = "try"
                                    /\ frame' = Some(Locals(args, r.value, sb.value))
                                    /\ calls' = <<rc, sc>>
                                    /\ last' = Record("gen", args, Running)
                        ELSE /\ pc' = "try"
                             /\ frame' = Some(Locals(args, r.value, skw))
                             /\ calls' = <<rc>>
                             /\ last' = Record("gen", args, Running)
    /\ UNCHANGED <<variant, flatVars, flagVars, modVars>>

gen == gen_with(GenInputsBasic)

\* line 396: the first attempt.  An UnsupportedError is caught (line 397);
\* any other error leaves gen.
gen_try ==
    /\ pc = "try"
    /\ \E run \in make_and_optimize_acqf(frame[1], last.args, FALSE) :
         /\ calls' = calls \o run.calls
         /\ IF run.out.status = "return"
            THEN /\ pc' = "return"
                 /\ frame' = Some([frame[1] EXCEPT !.result = Some(run.out.value)])
                 /\ last' = last
            ELSE IF run.out.error.type = "UnsupportedError"
                 THEN /\ pc' = "except"
                      /\ frame' = Some([frame[1] EXCEPT !.exc = Some(run.out.error)])
                      /\ last' = last
                 ELSE /\ pc' = "idle"
                      /\ frame' = None
                      /\ last' = [last EXCEPT !.out = run.out]
    /\ UNCHANGED <<variant, flatVars, flagVars, modVars>>

\* a handler that retries on every UnsupportedError
IsSobolLimit_any(e) == TRUE

\* lines 397-404: retry on the Sobol dimension error, re-raise anything else
IsSobolLimit(e) == Contains(e.msg, SobolText)

gen_except ==
    /\ pc = "except"
    /\ IF IsSobolLimit(frame[1].exc[1])
       THEN /\ pc' = "fallback"
            /\ UNCHANGED <<frame, last>>
       ELSE /\ pc' = "idle"
            /\ frame' = None
            /\ last' = [last EXCEPT !.out = Raise(frame[1].exc[1])]
    /\ UNCHANGED <<variant, flatVars, flagVars, modVars, calls>>

\* a handler that keeps retrying while the dimension error recurs
gen_fallback_retrying ==
    /\ pc = "fallback"
    /\ \E run \in make_and_optimize_acqf(frame[1], last.args, TRUE) :
         /\ calls' = calls \o run.calls
         /\ IF run.out.status = "return"
            THEN /\ pc' = "return"
                 /\ frame' = Some([frame[1] EXCEPT !.result = Some(run.out.value)])
                 /\ last' = last
            ELSE IF run.out.error.type = "UnsupportedError"
                      /\ Contains(run.out.error.msg, SobolText)
                 THEN /\ pc' = "fallback"
                      /\ UNCHANGED <<frame, last>>
                 ELSE /\ pc' = "idle"
                      /\ frame' = None
                      /\ last' = [last EXCEPT !.out = run.out]
    /\ UNCHANGED <<variant, flatVars, flagVars, modVars>>

\* a retry that resolves the pending and observed points again
gen_fallback_resolving ==
    /\ pc = "fallback"
    /\ \E run \in make_and_optimize_acqf(frame[1], last.args, TRUE) :
         /\ calls' = calls \o <<calls[1]>> \o run.calls
         /\ IF run.out.status = "return"
            THEN /\ pc' = "return"
                 /\ frame' = Some([frame[1] EXCEPT !.result = Some(run.out.value)])
                 /\ last' = last
            ELSE /\ pc' = "idle"
                 /\ frame' = None
                 /\ last' = [last EXCEPT !.out = run.out]
    /\ UNCHANGED <<variant, flatVars, flagVars, modVars>>

\* lines 400-402: the second attempt, with qmc switched off; its errors
\* leave gen
gen_fallback ==
    /\ pc = "fallback"
    /\ \E run \in make_and_optimize_acqf(frame[1], last.args, TRUE) :
         /\ calls' = calls \o run.calls
         /\ IF run.out.status = "return"
            THEN /\ pc' = "return"
                 /\ frame' = Some([frame[1] EXCEPT !.result = Some(run.out.value)])
                 /\ last' = last
            ELSE /\ pc' = "idle"
                 /\ frame' = None
                 /\ last' = [last EXCEPT !.out = run.out]
    /\ UNCHANGED <<variant, flatVars, flagVars, modVars>>

\* lines 406-411
detach_cpu(t) == [data |-> t.data, device |-> Some("cpu"), requires_grad |-> FALSE]
ones(n, dtype_) == [data |-> [i \in 1..n |-> 1], dtype |-> dtype_]
tolist(t) == t.data

\* gen returning its candidates without the optimizer's value
gen_result_no_value(result, n, dtype_) ==
    [candidates |-> detach_cpu(result.candidates),
     weights |-> ones(n, dtype_),
     gen_metadata |-> EmptyDict,
     candidate_metadata |-> None]

gen_result(result, n, dtype_) ==
    [candidates |-> detach_cpu(result.candidates),
     weights |-> ones(n, dtype_),
     gen_metadata |-> ("expected_acquisition_value" :>
                          tolist(result.expected_acquisition_value)),
     candidate_metadata |-> None]

\* gen keeping the subsetted model as the live model
gen_return_persisting ==
    /\ pc = "return"
    /\ pc' = "idle"
    /\ frame' = None
    /\ last' = [last EXCEPT
                  !.out = Return(gen_result(frame[1].result[1], last.args.n, dtype))]
    /\ model' = frame[1].model
    /\ UNCHANGED <<variant, Xs, Ys, Yvars, dtype, device, task_features,
                   fidelity_features, metric_names, flagVars, modVars, calls>>

gen_return ==
    /\ pc = "return"
    /\ pc' = "idle"
    /\ frame' = None
    /\ last' = [last EXCEPT
                  !.out = Return(gen_result(frame[1].result[1], last.args.n, dtype))]
    /\ UNCHANGED <<variant, flatVars, flagVars, modVars, calls>>

(***************************************************************************)
(* BotorchModel.best_point (botorch.py 425-434).                           *)
(***************************************************************************)
best_point_kwargs(args) ==
    [model |-> [facade |-> "self"],
     bounds |-> args.bounds,
     objective_weights |-> args.objective_weights,
     outcome_constraints |-> args.outcome_constraints,
     linear_constraints |-> args.linear_constraints,
     fixed_features |-> args.fixed_features,
     model_gen_options |-> args.model_gen_options,
     target_fidelities |-> args.target_fidelities]

\* the recommender: a point, no point, or an error
RecommenderOutcomes(kw) ==
    {Return(Some([data |-> <<kw.bounds[1][1], kw.bounds[2][1]>>])),
     Return(None), Raise(ErrCollab)}

best_point_with(inputs) ==
    /\ variant = "flat" /\ pc = "idle"
    /\ \E args \in inputs :
         LET kw == best_point_kwargs(args)
         IN \E o \in RecommenderOutcomes(kw) :
              Finish("best_point", args, <<Call("best_point_recommender", kw, o)>>, o)
    /\ UNCHANGED <<variant, flatVars, flagVars, modVars>>

best_point == best_point_with(GenInputsBasic)

(***************************************************************************)
(* The modular facade, BoTorchModel (botorch_modular/model.py).            *)
(* A Surrogate is an external class: it records the classes it was made    *)
(* with and, once fitted, what it was fitted on.                           *)
(***************************************************************************)
KeyState == "state_dict"                \* Keys.STATE_DICT
KeyRefit == "refit_on_update"           \* Keys.REFIT_ON_UPDATE
KeyWarm == "warm_start_refitting"       \* Keys.WARM_START_REFITTING

ConfiguredState == [params |-> [data |-> 0, start |-> "configured"],
                    obj |-> "copy"]
ConfiguredSurrogate ==
    [origin |-> "configured", botorch_model_class |-> "SingleTaskGP",
     mll_class |-> "ExactMarginalLogLikelihood", fitted |-> None]

\* surrogate_fit_options a caller can configure
FitOptionDicts ==
    {a @@ b @@ c :
        a \in {EmptyDict, KeyState :> Some(ConfiguredState)},
        b \in {EmptyDict, KeyRefit :> TRUE, KeyRefit :> FALSE},
        c \in {EmptyDict, KeyWarm :> TRUE, KeyWarm :> FALSE}}

ErrSurrogateUnset ==
    [type |-> "ValueError", msg |-> <<"Surrogate has not yet been set.">>]
ErrComingSoon == [type |-> "NotImplementedError", msg |-> <<"Coming soon.">>]
ErrSurrogateUnfitted ==
    [type |-> "NotFittedError", msg |-> <<"Surrogate has not been fitted">>]

\* choose_model_class / choose_mll_class / choose_botorch_acqf_class
choose_model_class(d) == IF d % 2 = 1 THEN "FixedNoiseGP" ELSE "SingleTaskGP"
choose_mll_class(model_class, sd, refit) ==
    IF sd = None \/ refit THEN "ExactMarginalLogLikelihood" ELSE "None"
choose_botorch_acqf_class == "qNoisyExpectedImprovement"

\* Surrogate.fit: fits on the training data, from `state_dict` when given
SurrogateFitOutcomes(kw) ==
    {Return([training_data |-> kw.training_data, state_dict |-> kw.state_dict,
             refit |-> kw.refit, dtype |-> kw.training_data.dtype,
             device |-> kw.training_data.device,
             outputs |-> [i \in 1..Len(kw.metric_names) |-> i],
             params |-> IF kw.state_dict = None
                        THEN [data |-> kw.training_data.data, start |-> "cold"]
                        ELSE IF kw.refit
                             THEN [data |-> kw.training_data.data, start |-> "warm"]
                             ELSE kw.state_dict[1].params]),
     Raise(ErrCollab)}

\* BoTorchModel.fit, lines 139-142: a refit without warm start drops the
\* configured snapshot
fit_options_after(opts) ==
    IF Get(opts, KeyRefit, TRUE) /\ ~Get(opts, KeyWarm, TRUE)
    THEN (KeyState :> None) @@ opts
    ELSE opts

surrogate_fit_kwargs(d, opts) ==
    [training_data |-> [data |-> d, dtype |-> DtypeOf(d), device |-> DeviceOf(d)],
     metric_names |-> MetricNamesOf(d),
     state_dict |-> Get(opts, KeyState, None),
     refit |-> Get(opts, KeyRefit, TRUE)]

\* a fit that selects a surrogate afresh from the data on every call
modular_fit_reselecting ==
    /\ variant = "modular" /\ pc = "idle"
    /\ \E d \in DataIds :
         LET chosen ==
                 Some([origin |-> "auto",
                       botorch_model_class |-> choose_model_class(d),
                       mll_class |-> choose_mll_class(
                           choose_model_class(d),
                           Get(surrogate_fit_options, KeyState, None),
                           Get(surrogate_fit_options, KeyRefit, TRUE)),
                       fitted |-> None])
             opts == fit_options_after(surrogate_fit_options)
             kw == surrogate_fit_kwargs(d, opts)
         IN /\ surrogate_fit_options' = opts
            /\ \E o \in SurrogateFitOutcomes(kw) :
                 /\ m_surrogate' =
                        IF o.status = "return"
                        THEN Some([chosen[1] EXCEPT !.fitted = Some(o.value)])
                        ELSE chosen
                 /\ Finish("fit", [data |-> d], <<Call("surrogate_fit", kw, o)>>,
                           IF o.status = "return" THEN Return(None) ELSE o)
    /\ UNCHANGED <<variant, flatVars, flagVars, m_botorch_acqf_class>>

\* BoTorchModel.fit (model.py 113-154)
modular_fit ==
    /\ variant = "modular" /\ pc = "idle"
    /\ \E d \in DataIds :
         LET chosen ==
                 IF m_surrogate = None
                 THEN Some([origin |-> "auto",
                            botorch_model_class |-> choose_model_class(d),
                            mll_class |-> choose_mll_class(
                                choose_model_class(d),
                                Get(surrogate_fit_options, KeyState, None),
                                Get(surrogate_fit_options, KeyRefit, TRUE)),
                            fitted |-> None])
                 ELSE m_surrogate
             opts == fit_options_after(surrogate_fit_options)
             kw == surrogate_fit_kwargs(d, opts)
         IN /\ surrogate_fit_options' = opts
            /\ \E o \in SurrogateFitOutcomes(kw) :
                 /\ m_surrogate' =
                        IF o.status = "return"
                        THEN Some([chosen[1] EXCEPT !.fitted = Some(o.value)])
                        ELSE chosen
                 /\ Finish("fit", [data |-> d], <<Call("surrogate_fit", kw, o)>>,
                           IF o.status = "return" THEN Return(None) ELSE o)
    /\ UNCHANGED <<variant, flatVars, flagVars, m_botorch_acqf_class>>

\* Surrogate.predict: posterior moments; fails before the surrogate is fitted
SurrogatePredictOutcomes(sg, X) ==
    IF sg.fitted = None THEN {Raise(ErrSurrogateUnfitted)}
    ELSE {Return(Posterior(sg.fitted[1], X)), Raise(ErrCollab)}

\* BoTorchModel.predict (model.py 160), through the surrogate property (86-88)
modular_predict ==
    /\ variant = "modular" /\ pc = "idle"
    /\ IF m_surrogate = None
       THEN Finish("predict", [X |-> TestX], <<>>, Raise(ErrSurrogateUnset))
       ELSE \E o \in SurrogatePredictOutcomes(m_surrogate[1], TestX) :
              Finish("predict", [X |-> TestX],
                     <<Call("surrogate_predict",
                            [surrogate |-> m_surrogate, X |-> TestX], o)>>, o)
    /\ UNCHANGED <<variant, flatVars, flagVars, modVars>>

\* construct_acquisition_and_optimizer_options with no acquisition_options
\* configured on the facade
modular_options(args) ==
    LET options == IF args.model_gen_options = None THEN EmptyDict
                   ELSE args.model_gen_options[1]
    IN [acq_options |-> Get(options, KeyAcqf, EmptyDict),
        opt_options |-> Get(options, KeyOpt, EmptyDict)]

acquisition_kwargs(args, surrogate, acqf_class, acq_options) ==
    [surrogate |-> surrogate,
     botorch_acqf_class |-> acqf_class,
     bounds |-> args.bounds,
     objective_weights |-> args.objective_weights,
     outcome_constraints |-> args.outcome_constraints,
     linear_constraints |-> args.linear_constraints,
     fixed_features |-> args.fixed_features,
     pending_observations |-> args.pending_observations,
     target_fidelities |-> args.target_fidelities,
     options |-> acq_options]

\* the Acquisition class: builds on a fitted surrogate
AcquisitionOutcomes(kw) ==
    IF kw.surrogate[1].fitted = None THEN {Raise(ErrSurrogateUnfitted)}
    ELSE {Return([is_acqf |-> TRUE, kw |-> kw]), Raise(ErrCollab)}

modular_optimize_kwargs(args, acq, sg, opt_options) ==
    [acq_function |-> acq,
     bounds |-> bounds_tensor(args.bounds, Some(sg.fitted[1].dtype),
                              Some(sg.fitted[1].device)),
     n |-> args.n,
     inequality_constraints |-> to_inequality_constraints(args.linear_constraints),
     fixed_features |-> args.fixed_features,
     rounding_func |-> get_rounding_func(args.rounding_func),
     options |-> opt_options]

\* BoTorchModel.gen (model.py 178-208) with _instantiate_acquisition (269-283)
modular_gen_with(inputs) ==
    /\ variant = "modular" /\ pc = "idle"
    /\ \E args \in inputs :
         LET o12 == modular_options(args)
             cls == IF m_botorch_acqf_class = None
                    THEN Some(choose_botorch_acqf_class)
                    ELSE m_botorch_acqf_class
             akw == acquisition_kwargs(args, m_surrogate, cls, o12.acq_options)
         IN /\ m_botorch_acqf_class' = cls
            /\ IF m_surrogate = None
               THEN Finish("gen", args, <<>>, Raise(ErrSurrogateUnset))
               ELSE \E a \in AcquisitionOutcomes(akw) :
                      LET ac == Call("acquisition_class", akw, a) IN
                      IF a.status = "raise"
                      THEN Finish("gen", args, <<ac>>, a)
                      ELSE LET okw == modular_optimize_kwargs(
                                          args, a.value, m_surrogate[1],
                                          o12.opt_options)
                           IN \E o \in OptimizerOutcomes(okw) :
                                Finish("gen", args,
                                       <<ac, Call("acqf_optimizer", okw, o)>>,
                                       IF o.status = "raise" THEN o
                                       ELSE Return(gen_result(
                                                o.value, args.n,
                                                Some(m_surrogate[1].fitted[1].dtype))))
    /\ UNCHANGED <<variant, flatVars, flagVars, m_surrogate, surrogate_fit_options>>

modular_gen == modular_gen_with(GenInputsBasic)

\* BoTorchModel.best_point (model.py 223)
modular_best_point ==
    /\ variant = "modular" /\ pc = "idle"
    /\ \E args \in GenInputsBasic :
         Finish("best_point", args, <<>>, Raise(ErrComingSoon))
    /\ UNCHANGED <<variant, flatVars, flagVars, modVars>>

(***************************************************************************)
(* Specifications.  Spec explores the life cycle of a facade under every   *)
(* configuration, with a few gen inputs; GenSpec explores gen under every  *)
(* input of GenInputs on a facade with the default configuration.          *)
(***************************************************************************)
IdleInit ==
    /\ pc = "idle" /\ frame = None /\ calls = <<>>
    /\ last = Record("init", <<>>, Return(None))

Init ==
    /\ variant \in {"flat", "modular"}
    /\ FlatInit
    /\ IF variant = "flat"
       THEN /\ refit_on_cv \in BOOLEAN
            /\ refit_on_update \in BOOLEAN
            /\ warm_start_refitting \in BOOLEAN
            /\ m_surrogate = None /\ m_botorch_acqf_class = None
            /\ surrogate_fit_options = EmptyDict
       ELSE /\ refit_on_cv = FALSE
            /\ refit_on_update = TRUE
            /\ warm_start_refitting = TRUE
            /\ m_surrogate \in {None, Some(ConfiguredSurrogate)}
            /\ m_botorch_acqf_class \in {None, Some("qExpectedImprovement")}
            /\ surrogate_fit_options \in FitOptionDicts
    /\ IdleInit

Next ==
    \/ fit \/ predict \/ cross_validate \/ update \/ best_point
    \/ gen \/ gen_try \/ gen_except \/ gen_fallback \/ gen_return
    \/ modular_fit \/ modular_predict \/ modular_gen \/ modular_best_point

Spec == Init /\ [][Next]_vars

GenInit ==
    /\ variant \in {"flat", "modular"}
    /\ FlatInit
    /\ refit_on_cv = FALSE /\ refit_on_update = TRUE
    /\ warm_start_refitting = TRUE
    /\ m_surrogate = None /\ m_botorch_acqf_class = None
    /\ surrogate_fit_options = EmptyDict
    /\ IdleInit

gen_any == gen_with(GenInputs)
modular_gen_any == modular_gen_with(GenInputs)
fit_basic == fit_on(DigestsBasic)

GenNext ==
    \/ fit_basic \/ gen_any \/ gen_try \/ gen_except \/ gen_fallback \/ gen_return
    \/ modular_fit \/ modular_gen_any

GenSpec == GenInit /\ [][GenNext]_vars

\* gen is synchronous: once called, it runs on until it returns or raises
GenSteps == gen_try \/ gen_except \/ gen_fallback \/ gen_return
GenFairSpec == GenSpec /\ WF_vars(GenSteps)

(***************************************************************************)
(* RoundSpec applies the wrapper of get_rounding_func to every batch of    *)
(* shape (q, d) and (s, q, d) within the bound.                            *)
(***************************************************************************)
MaxBatch == 2       \* largest q and largest s of a batch

RowValues == {<<0, 1>>, <<1, 2>>, <<2, 0>>}
BatchShapes ==
    {<<q>> : q \in 1..MaxBatch} \cup {<<s, q>> : s \in 1..MaxBatch, q \in 1..MaxBatch}
RowCount(bs) == IF Len(bs) = 1 THEN bs[1] ELSE bs[1] * bs[2]
Batches ==
    UNION {{[shape |-> bs \o <<Dim>>, data |-> Flatten(rows)] :
               rows \in [1..RowCount(bs) -> RowValues]} : bs \in BatchShapes}

RoundInit ==
    /\ variant = "flat"
    /\ FlatInit
    /\ refit_on_cv = FALSE /\ refit_on_update = TRUE
    /\ warm_start_refitting = TRUE
    /\ m_surrogate = None /\ m_botorch_acqf_class = None
    /\ surrogate_fit_options = EmptyDict
    /\ pc = "idle" /\ calls = <<>>
    /\ last = Record("init", <<>>, Return(None))
    /\ frame \in {Some([rounding_func |-> Some(f), X |-> X]) :
                     f \in RoundingFuncs, X \in Batches}

\* the wrapper obtained from get_rounding_func, called on the batch
round_batch ==
    /\ pc = "idle" /\ frame # None /\ last.op = "init"
    /\ LET wrapper == get_rounding_func(frame[1].rounding_func)
       IN /\ wrapper # None
          /\ last' = Record("botorch_rounding_func", frame[1],
                            Return(botorch_rounding_func(
                                       wrapper[1].botorch_rounding_func,
                                       frame[1].X)))
    /\ UNCHANGED <<variant, flatVars, flagVars, modVars, pc, frame, calls>>

RoundNext == round_batch

RoundSpec == RoundInit /\ [][RoundNext]_vars

(***************************************************************************)
(* Properties.                                                             *)
(***************************************************************************)
CallsOf(fn) == {i \in 1..Len(calls) : calls[i].fn = fn}
CountCalls(fn) == Cardinality(CallsOf(fn))

\* no fit has ever succeeded on this facade
Unfitted ==
    IF variant = "flat" THEN model = None
    ELSE m_surrogate = None \/ m_surrogate[1].fitted = None

\* the errors that report a missing fitted model
NotFittedErrors ==
    {ErrCannotUpdate, ErrCannotCV, ErrSurrogateUnset, ErrSurrogateUnfitted}

\* C1: on a facade (flat or modular) on which no fit has ever succeeded,
\* every call to predict, gen or best_point fails with the not-fitted error
\* before any collaborator is invoked.
C1_UnfittedCallFailsBeforeCollaborators ==
    [][(pc = "idle" /\ Unfitted /\ last'.op \in {"predict", "gen", "best_point"})
         => /\ last'.out.status = "raise"
            /\ last'.out.error \in NotFittedErrors
            /\ calls' = <<>>]_vars

\* C2: on a flat facade on which no fit has ever succeeded, update and
\* cross_validate fail with the not-fitted error, invoke no collaborator
\* (so no model constructor), and leave the observation set, the feature
\* metadata and the absent model as they were.
C2_UnfittedUpdateAndCvRejected ==
    [][(variant = "flat" /\ pc = "idle" /\ model = None
          /\ last'.op \in {"update", "cross_validate"})
         => /\ last'.out = Raise(IF last'.op = "update" THEN ErrCannotUpdate
                                 ELSE ErrCannotCV)
            /\ calls' = <<>>
            /\ UNCHANGED <<flatVars, flagVars>>]_vars

\* C2 witness: update was rejected on a facade whose only fit had failed (the
\* observation set is stored, the model is absent)
C2_Witness ==
    /\ variant = "flat" /\ model = None /\ Xs # <<>>
    /\ last.op = "update" /\ last.out = Raise(ErrCannotUpdate)

\* what the caller asked of the candidates, in the caller's own terms
WithinBounds(x, bounds) ==
    \A i \in 1..Len(bounds) : bounds[i][1] <= x[i] /\ x[i] <= bounds[i][2]
SatisfiesLinear(x, lc) ==
    lc = None \/ \A r \in 1..Len(lc[1].A) :
                    SumSeq([i \in 1..Len(x) |-> lc[1].A[r][i] * x[i]]) <= lc[1].b[r]
HoldsFixed(x, ff) ==
    ff = None \/ \A col \in DOMAIN ff[1] : x[col + 1] = ff[1][col]

GenReturned == last.op = "gen" /\ last.out.status = "return"
TookFallback == CountCalls("acqf_constructor") = 2

\* C3: a gen call with n = k that returns normally (first attempt or
\* fallback retry, either facade) returns exactly k candidates, each within
\* the bounds, satisfying every linear inequality constraint, with every
\* fixed feature at its value.
C3_CandidatesMeetRequest ==
    GenReturned =>
        LET c == last.out.value.candidates.data
        IN /\ Len(c) = last.args.n
           /\ \A k \in 1..Len(c) :
                /\ WithinBounds(c[k], last.args.bounds)
                /\ SatisfiesLinear(c[k], last.args.linear_constraints)
                /\ HoldsFixed(c[k], last.args.fixed_features)

\* C3 witness: a fallback retry returned two candidates under a linear
\* constraint and a fixed feature
C3_Witness ==
    /\ GenReturned /\ last.variant = "flat" /\ TookFallback
    /\ last.args.n = 2
    /\ last.args.linear_constraints # None
    /\ last.args.fixed_features # None

\* the caller's acquisition_function_kwargs (line 326)
AcfOptionsOf(args) ==
    Get(IF args.model_gen_options = None THEN EmptyDict
        ELSE args.model_gen_options[1], KeyAcqf, EmptyDict)

FlatGen == last.variant = "flat" /\ last.op = "gen"
FirstOf(fn) == calls[CHOOSE i \in CallsOf(fn) : \A j \in CallsOf(fn) : i <= j]
SameOptimizerRequest(a, b) ==
    /\ a.bounds = b.bounds /\ a.n = b.n
    /\ a.inequality_constraints = b.inequality_constraints
    /\ a.fixed_features = b.fixed_features
    /\ a.rounding_func = b.rounding_func

\* C4: in a flat gen call whose acquisition_function_kwargs do not mention
\* qmc, once the first attempt has raised the dimension-overflow error the
\* handler retries: the acquisition constructor is invoked once more with
\* qmc=False and otherwise the arguments of the first invocation, the
\* optimizer is then invoked with the same bounds, n, inequality
\* constraints, fixed features and rounding function, and what gen returns
\* is the candidates and expected value of that second optimizer call.
C4_FallbackRetriesWithoutQmc ==
    [][(FlatGen /\ "qmc" \notin DOMAIN AcfOptionsOf(last.args)) =>
         /\ (pc = "except" /\ IsSobolLimit(frame[1].exc[1])) =>
               /\ pc' = "fallback" /\ calls' = calls
               /\ CountCalls("acqf_constructor") = 1
         /\ pc = "fallback" =>
               LET first == FirstOf("acqf_constructor")
                   new == SubSeq(calls', Len(calls) + 1, Len(calls'))
               IN /\ Len(new) \in {1, 2}
                  /\ new[1].fn = "acqf_constructor"
                  /\ new[1].kw = [first.kw EXCEPT
                                    !.options = ("qmc" :> FALSE) @@ first.kw.options]
                  /\ (Len(new) = 1 /\ new[1].out.status = "return") =>
                        ~new[1].out.value.is_acqf
                  /\ Len(new) = 2 =>
                        /\ new[2].fn = "acqf_optimizer"
                        /\ new[2].kw.acq_function = new[1].out.value
                        /\ new[2].kw.bounds.data =
                               <<[i \in 1..Dim |-> last.args.bounds[i][1]],
                                 [i \in 1..Dim |-> last.args.bounds[i][2]]>>
                        /\ new[2].kw.n = last.args.n
                        /\ new[2].kw.fixed_features = last.args.fixed_features
                        /\ CallsOf("acqf_optimizer") # {} =>
                              SameOptimizerRequest(
                                  new[2].kw, FirstOf("acqf_optimizer").kw)
                  /\ pc' = "return" =>
                        /\ Len(new) = 2
                        /\ frame'[1].result = Some(new[2].out.value)
         /\ (pc = "return" /\ TookFallback) =>
               LET second == frame[1].result[1]
               IN /\ last'.out.status = "return"
                  /\ last'.out.value.candidates.data = second.candidates.data
                  /\ last'.out.value.gen_metadata["expected_acquisition_value"]
                         = second.expected_acquisition_value.data
       ]_vars

\* C4 witness: gen returned from the fallback retry, the caller having passed
\* acquisition options without qmc
C4_Witness ==
    /\ FlatGen /\ last.out.status = "return" /\ TookFallback
    /\ AcfOptionsOf(last.args) = ("mc_samples" :> 8)

\* C5: in every flat gen call, whatever the collaborators raise, the
\* acquisition constructor and the optimizer are each invoked at most twice,
\* the fallback is entered at most once (only after a single attempt), and
\* the call ends with a result or a propagated error.
C5_AtMostTwoAttempts ==
    FlatGen =>
        /\ CountCalls("acqf_constructor") <= 2
        /\ CountCalls("acqf_optimizer") <= 2
        /\ pc \in {"except", "fallback"} =>
              /\ CountCalls("acqf_constructor") <= 1
              /\ CountCalls("acqf_optimizer") <= 1
        /\ pc = "idle" => last.out.status \in {"return", "raise"}

C5_GenBoundedAndTerminates ==
    /\ []C5_AtMostTwoAttempts
    /\ (pc # "idle") ~> (pc = "idle" /\ last.out.status \in {"return", "raise"})

\* C5 witness: a call that used both attempts, the second one failing in the
\* optimizer
C5_Witness ==
    /\ FlatGen /\ pc = "idle" /\ last.out.status = "raise"
    /\ CountCalls("acqf_constructor") = 2
    /\ CountCalls("acqf_optimizer") = 2

\* the dimension-overflow error of the quasi-Monte-Carlo sampler
IsOverflow(e) == e.type = "UnsupportedError" /\ Contains(e.msg, SobolText)

\* the error that ended the attempt whose constructor invocation is calls[i]
\* (None when the attempt returned)
AttemptError(i) ==
    IF calls[i].out.status = "raise" THEN Some(calls[i].out.error)
    ELSE IF ~calls[i].out.value.is_acqf THEN Some(ErrCheckedCast)
    ELSE IF /\ i + 1 <= Len(calls)
            /\ calls[i + 1].fn = "acqf_optimizer"
            /\ calls[i + 1].out.status = "raise"
         THEN Some(calls[i + 1].out.error)
         ELSE None

\* C6: in a flat gen call, an error of the first attempt other than the
\* dimension-overflow error reaches the caller unchanged with no second
\* constructor or optimizer invocation; an error of the fallback attempt
\* (a recurrence of the overflow error included) reaches the caller
\* unchanged and nothing is invoked after it.
C6_OtherErrorsPropagate ==
    (FlatGen /\ CallsOf("acqf_constructor") # {}) =>
        LET AC == CallsOf("acqf_constructor")
            i1 == CHOOSE i \in AC : \A j \in AC : i <= j
            i2 == CHOOSE i \in AC : \A j \in AC : j <= i
            e1 == AttemptError(i1)
            e2 == AttemptError(i2)
        IN /\ (e1 # None /\ ~IsOverflow(e1[1])) =>
                 /\ Cardinality(AC) = 1
                 /\ CountCalls("acqf_optimizer") <= 1
                 /\ pc \in {"except", "idle"}
                 /\ pc = "idle" => last.out = Raise(e1[1])
           /\ (Cardinality(AC) = 2 /\ e2 # None) =>
                 /\ pc = "idle"
                 /\ last.out = Raise(e2[1])
                 /\ Len(calls) <= i2 + 1

\* C6 witness: the overflow error recurred in the fallback attempt and reached
\* the caller
C6_Witness ==
    /\ FlatGen /\ pc = "idle" /\ TookFallback /\ last.out = Raise(ErrSobol)

\* C7: a flat gen call given a non-empty target_fidelities mapping fails with
\* NotImplementedError before any collaborator is invoked and leaves the
\* model, the observation set and the feature metadata unchanged.
HasTargets(args) ==
    args.target_fidelities # None /\ DOMAIN args.target_fidelities[1] # {}

C7_TargetFidelitiesRejected ==
    [][(variant = "flat" /\ pc = "idle" /\ last'.op = "gen"
          /\ HasTargets(last'.args))
         => /\ last'.out = Raise(ErrTargetFidelities)
            /\ calls' = <<>>
            /\ pc' = "idle"
            /\ UNCHANGED <<flatVars, flagVars>>]_vars

\* C7 witness: a fitted facade rejected a gen call that carried a target
C7_Witness ==
    /\ variant = "flat" /\ model # None
    /\ last.op = "gen" /\ HasTargets(last.args)
    /\ last.out = Raise(ErrTargetFidelities)

\* C8: with refit on and warm start off the refit starts cold: flat update
\* passes state None to the model constructor, and modular fit passes state
\* None to the surrogate fit whatever snapshot its fit options held.
C8_ColdRefit ==
    [][/\ (variant = "flat" /\ pc = "idle" /\ model # None
             /\ last'.op = "update"
             /\ refit_on_update /\ ~warm_start_refitting)
          => /\ Len(calls') = 1
             /\ calls'[1].fn = "model_constructor"
             /\ calls'[1].kw.state_dict = None
             /\ calls'[1].kw.refit_model = Some(TRUE)
       /\ (variant = "modular" /\ pc = "idle" /\ last'.op = "fit"
             /\ Get(surrogate_fit_options, KeyRefit, TRUE)
             /\ ~Get(surrogate_fit_options, KeyWarm, TRUE))
          => /\ Len(calls') = 1
             /\ calls'[1].fn = "surrogate_fit"
             /\ calls'[1].kw.state_dict = None
             /\ calls'[1].kw.refit = TRUE
      ]_vars

\* C8 witness: an update with refit on and warm start off built the new model
\* with no snapshot
C8_Witness ==
    /\ variant = "flat" /\ last.op = "update" /\ last.out.status = "return"
    /\ refit_on_update /\ ~warm_start_refitting
    /\ calls[1].kw.state_dict = None

\* a copy of the live model's parameter snapshot
CopyOfLiveSnapshot(m) == Some([params |-> m[1].params, obj |-> "copy"])

\* C9: on a fitted flat facade predict and cross_validate leave the live
\* model (hence its snapshot), the observation set and the feature metadata
\* unchanged; cross_validate seeds its model from nothing or from a copy of
\* the live snapshot, predicts with the model it built, and does not install
\* it.
C9_PredictAndCvReadOnly ==
    [][(variant = "flat" /\ pc = "idle" /\ model # None
          /\ last'.op \in {"predict", "cross_validate"})
         => /\ UNCHANGED <<flatVars, flagVars>>
            /\ last'.op = "predict" =>
                  /\ Len(calls') = 1
                  /\ calls'[1].fn = "model_predictor"
                  /\ calls'[1].kw.model = model
            /\ last'.op = "cross_validate" =>
                  /\ calls'[1].fn = "model_constructor"
                  /\ calls'[1].kw.state_dict \in {None, CopyOfLiveSnapshot(model)}
                  /\ Len(calls') = 2 =>
                        /\ calls'[2].fn = "model_predictor"
                        /\ calls'[2].kw.model = Some(calls'[1].out.value)
       ]_vars

\* C9 witness: cross_validate built and used a model from other data than the
\* stored observation set, seeded from the live snapshot
C9_Witness ==
    /\ variant = "flat" /\ model # None
    /\ last.op = "cross_validate" /\ last.out.status = "return"
    /\ Len(calls) = 2
    /\ calls[1].kw.state_dict # None
    /\ calls[1].kw.Xs # Xs

\* C10: cross_validate is governed by refit_on_cv alone: the constructor's
\* refit flag is refit_on_cv, and its state is None exactly when refit_on_cv
\* is true and otherwise a copy of the live model's snapshot.
C10_CvGovernedByRefitOnCv ==
    (variant = "flat" /\ last.op = "cross_validate" /\ calls # <<>>) =>
        /\ calls[1].kw.refit_model = Some(refit_on_cv)
        /\ (calls[1].kw.state_dict = None) <=> refit_on_cv
        /\ ~refit_on_cv => calls[1].kw.state_dict = CopyOfLiveSnapshot(model)

\* C10 witness: cross_validate kept the live parameters although update is
\* configured to refit cold
C10_Witness ==
    /\ variant = "flat" /\ last.op = "cross_validate" /\ calls # <<>>
    /\ ~refit_on_cv /\ refit_on_update /\ ~warm_start_refitting
    /\ calls[1].kw.state_dict # None

\* the errors a call can end with only because the model is missing
MissingModelErrors == {ErrCannotUpdate, ErrCannotCV, ErrNoModel, ErrSurrogateUnset}

\* C11: the life cycle is unfitted, then fitted, and never back: once the
\* flat facade holds a model (the modular facade a surrogate), every later
\* step of fit, update, cross_validate, predict, gen and best_point, failing
\* or not, leaves it holding one, and no call ends with an error that
\* reports a missing model.
C11_FittedForever ==
    [][/\ (variant = "flat" /\ model # None) =>
             /\ model' # None
             /\ ~(last'.out.status = "raise"
                    /\ last'.out.error \in MissingModelErrors)
       /\ (variant = "modular" /\ m_surrogate # None) =>
             /\ m_surrogate' # None
             /\ ~(last'.out.status = "raise"
                    /\ last'.out.error \in MissingModelErrors)
      ]_vars

\* C11 witness: an update failed in the model constructor and the facade still
\* holds the model of the earlier fit
C11_Witness ==
    /\ variant = "flat" /\ model # None
    /\ last.op = "update" /\ last.out = Raise(ErrCollab)
    /\ model[1].Xs # Xs

\* C12: after every successful fit or update on the flat facade the stored
\* Xs, Ys and Yvars are exactly the tensors passed to that call, nothing of
\* an earlier observation set remains, and the model constructor was invoked
\* once, with exactly those tensors.
C12_ObservationsReplaced ==
    (variant = "flat" /\ last.op \in {"fit", "update"}
       /\ last.out.status = "return") =>
        LET d == last.args.data
        IN /\ Xs = XsOf(d) /\ Ys = YsOf(d) /\ Yvars = YvarsOf(d)
           /\ \A o \in DOMAIN Xs :
                 Xs[o].data = d /\ Ys[o].data = d /\ Yvars[o].data = d
           /\ Len(calls) = 1
           /\ calls[1].fn = "model_constructor"
           /\ calls[1].kw.Xs = XsOf(d)
           /\ calls[1].kw.Ys = YsOf(d)
           /\ calls[1].kw.Yvars = YvarsOf(d)
           /\ model = Some(calls[1].out.value)

\* C12 witness: an update with the second observation set succeeded on a model
\* whose parameters came from the first
C12_Witness ==
    /\ variant = "flat" /\ last.op = "update" /\ last.out.status = "return"
    /\ last.args.data = 2
    /\ model[1].params.data = 1
    /\ Xs = XsOf(2)

\* C13: on the flat facade predict, gen, best_point and cross_validate
\* leave task_features, fidelity_features and metric_names unchanged (only
\* fit assigns them), and every model constructor invocation made by update
\* or cross_validate receives the stored values, which are those recorded by
\* the most recent fit.
C13_MetadataFromFit ==
    [][variant = "flat" =>
         /\ last'.op # "fit" =>
               UNCHANGED <<task_features, fidelity_features, metric_names>>
         /\ (pc = "idle" /\ last'.op = "fit") =>
               /\ task_features' =
                      normalize_indices(last'.args.digest.task_features, Dim)
               /\ fidelity_features' =
                      normalize_indices(last'.args.digest.fidelity_features, Dim)
               /\ metric_names' = MetricNamesOf(last'.args.data)
         /\ (pc = "idle" /\ last'.op \in {"update", "cross_validate"}) =>
               \A i \in 1..Len(calls') :
                  calls'[i].fn = "model_constructor" =>
                     /\ calls'[i].kw.task_features = task_features
                     /\ calls'[i].kw.fidelity_features = fidelity_features
                     /\ calls'[i].kw.metric_names = metric_names
      ]_vars

\* C13 witness: cross_validate on data with other metric names than the
\* fitted ones built its model with the recorded task and fidelity features
C13_Witness ==
    /\ variant = "flat" /\ last.op = "cross_validate" /\ calls # <<>>
    /\ task_features = <<1>> /\ fidelity_features = <<0>>
    /\ calls[1].kw.task_features = task_features
    /\ MetricNamesOf(last.args.data) # metric_names
    /\ calls[1].kw.metric_names = metric_names

\* C14: every gen call that returns normally (either facade, first attempt
\* or fallback) returns n weights, each 1, and metadata whose
\* expected-acquisition-value entry is the value returned by the optimizer
\* invocation that produced the returned candidates.
C14_UniformWeightsAndValue ==
    GenReturned =>
        LET out == last.out.value
            opt == calls[Len(calls)]
        IN /\ Len(out.weights.data) = last.args.n
           /\ \A i \in 1..Len(out.weights.data) : out.weights.data[i] = 1
           /\ opt.fn = "acqf_optimizer"
           /\ opt.out.status = "return"
           /\ out.candidates.data = opt.out.value.candidates.data
           /\ "expected_acquisition_value" \in DOMAIN out.gen_metadata
           /\ out.gen_metadata["expected_acquisition_value"]
                  = opt.out.value.expected_acquisition_value.data

\* C14 witness: two candidates returned by the fallback retry after the first
\* optimizer invocation had raised the dimension error
C14_Witness ==
    /\ GenReturned /\ last.variant = "flat" /\ last.args.n = 2
    /\ CountCalls("acqf_optimizer") = 2
    /\ last.out.value.gen_metadata["expected_acquisition_value"] >= 100

\* the element of tensor t at a full multi-index, by its strides
RECURSIVE Offset(_, _)
Offset(shape, idx) ==
    IF idx = <<>> THEN 0
    ELSE Offset(SubSeq(shape, 1, Len(shape) - 1), SubSeq(idx, 1, Len(idx) - 1))
           * shape[Len(shape)] + (idx[Len(idx)] - 1)
RowAt(t, bidx) ==
    [k \in 1..t.shape[Len(t.shape)] |-> t.data[Offset(t.shape, bidx \o <<k>>) + 1]]
BatchIndices(shape) ==
    IF Len(shape) = 2 THEN {<<i>> : i \in 1..shape[1]}
    ELSE {<<s, q>> : s \in 1..shape[1], q \in 1..shape[2]}

\* C15: for every rounding function f and every batch of shape (q, d) or
\* (s, q, d), the wrapped rounding function returns a batch of the same
\* shape whose row at each index is f applied to the input row at that
\* index.
C15_WrapperRoundsRowwise ==
    last.op = "botorch_rounding_func" =>
        LET X == last.args.X
            Y == last.out.value
            f == last.args.rounding_func[1]
        IN /\ Y.shape = X.shape
           /\ Len(Y.data) = Len(X.data)
           /\ \A bidx \in BatchIndices(X.shape) :
                 RowAt(Y, bidx) = ApplyRounding(f, RowAt(X, bidx))

\* C15 witness: a batch of shape (2, 2, d) with different rows was rounded by
\* a function that changes them
C15_Witness ==
    /\ last.op = "botorch_rounding_func"
    /\ last.args.X.shape = <<2, 2, Dim>>
    /\ last.args.rounding_func = Some("swap")
    /\ RowAt(last.args.X, <<1, 2>>) # RowAt(last.args.X, <<2, 1>>)
    /\ last.out.value.data # last.args.X.data

\* C16: without a rounding function get_rounding_func returns None and gen,
\* on either facade, passes None to the optimizer; with a rounding function
\* the optimizer receives the wrapper around it, never the function itself.
C16_RoundingAbsentOrWrapped ==
    last.op = "gen" =>
        \A i \in CallsOf("acqf_optimizer") :
           IF last.args.rounding_func = None
           THEN calls[i].kw.rounding_func = None
           ELSE /\ calls[i].kw.rounding_func # None
                /\ DOMAIN calls[i].kw.rounding_func[1] = {"botorch_rounding_func"}
                /\ calls[i].kw.rounding_func[1].botorch_rounding_func
                       = last.args.rounding_func[1]

\* C16 witness: the modular facade's optimizer was given no rounding function,
\* none having been supplied
C16_Witness ==
    /\ last.variant = "modular" /\ GenReturned
    /\ last.args.rounding_func = None
    /\ calls[Len(calls)].kw.rounding_func = None

\* the caller's model_gen_options as a dict (line 325)
OptionsOf(args) ==
    IF args.model_gen_options = None THEN EmptyDict ELSE args.model_gen_options[1]

\* C17: in every flat gen call the resolver runs first and at most once,
\* the subsetter (when enabled) second and at most once, both before the
\* first acquisition constructor invocation; every optimizer invocation
\* directly follows the constructor invocation of its attempt and optimizes
\* what that invocation built; a fallback retry adds only a constructor and
\* an optimizer invocation.
C17_StagesInOrder ==
    (FlatGen /\ calls # <<>>) =>
        LET first == IF Get(OptionsOf(last.args), KeySubset, TRUE) THEN 3 ELSE 2
        IN /\ calls[1].fn = "get_X_pending_and_observed"
           /\ CountCalls("get_X_pending_and_observed") = 1
           /\ CountCalls("subset_model") <= 1
           /\ \A i \in CallsOf("subset_model") :
                 i = 2 /\ Get(OptionsOf(last.args), KeySubset, TRUE)
           /\ \A i \in CallsOf("acqf_constructor") :
                 /\ i >= first
                 /\ calls[first].fn = "acqf_constructor"
                 /\ i > first => calls[i - 1].fn \in {"acqf_constructor",
                                                      "acqf_optimizer"}
           /\ \A i \in CallsOf("acqf_optimizer") :
                 /\ i > first
                 /\ calls[i - 1].fn = "acqf_constructor"
                 /\ calls[i - 1].out = Return(calls[i].kw.acq_function)
           /\ \A i \in 1..Len(calls) :
                 calls[i].fn \in {"get_X_pending_and_observed", "subset_model",
                                  "acqf_constructor", "acqf_optimizer"}

\* C17 witness: resolver, subsetter, then two full attempts
C17_Witness ==
    /\ FlatGen /\ Len(calls) = 6
    /\ calls[2].fn = "subset_model"
    /\ calls[4].fn = "acqf_optimizer" /\ calls[6].fn = "acqf_optimizer"

\* the outcomes the caller's objective needs: nonzero weight, or a nonzero
\* coefficient in some outcome constraint
Needed(args) ==
    {j \in 1..Len(args.objective_weights) :
        \/ args.objective_weights[j] # 0
        \/ /\ args.outcome_constraints # None
           /\ \E r \in 1..Len(args.outcome_constraints[1].A) :
                 args.outcome_constraints[1].A[r][j] # 0}
SubsetEnabled(args) == Get(OptionsOf(args), KeySubset, TRUE)

\* C18: in flat gen, with subset_model true or absent the subsetter is
\* asked about the live model and the caller's objective, and the
\* acquisition constructor receives the model, objective weights and
\* outcome constraints it returned, which cover exactly the needed outcomes;
\* with subset_model false the subsetter is not invoked and the constructor
\* receives the live model and the caller's weights and constraints.
C18_ConstructorGetsSubset ==
    FlatGen =>
        \A i \in CallsOf("acqf_constructor") :
           IF SubsetEnabled(last.args)
           THEN /\ calls[2].fn = "subset_model"
                /\ calls[2].kw.model = model
                /\ calls[2].kw.objective_weights = last.args.objective_weights
                /\ calls[2].kw.outcome_constraints = last.args.outcome_constraints
                /\ calls[i].kw.model = calls[2].out.value.model
                /\ calls[i].kw.objective_weights
                       = calls[2].out.value.objective_weights
                /\ calls[i].kw.outcome_constraints
                       = calls[2].out.value.outcome_constraints
                /\ Len(calls[i].kw.objective_weights)
                       = Cardinality(Needed(last.args))
                /\ Len(calls[i].kw.model[1].outputs)
                       = Cardinality(Needed(last.args))
                /\ \A k \in 1..Len(calls[i].kw.model[1].outputs) :
                      calls[i].kw.model[1].outputs[k] \in Needed(last.args)
           ELSE /\ CallsOf("subset_model") = {}
                /\ calls[i].kw.model = model
                /\ calls[i].kw.objective_weights = last.args.objective_weights
                /\ calls[i].kw.outcome_constraints = last.args.outcome_constraints

\* C18 witness: the constructor of a fallback retry was given a model reduced
\* to one outcome
C18_Witness ==
    /\ FlatGen /\ TookFallback /\ SubsetEnabled(last.args)
    /\ \A i \in CallsOf("acqf_constructor") :
          Len(calls[i].kw.objective_weights) = 1
    /\ Len(last.args.objective_weights) = 2

\* C19: on an objective that needs every outcome the subsetter returns the
\* model, objective weights and outcome constraints it was given; the
\* subsetter applied to any of its results returns that result; and gen with
\* subset_model true then gives the acquisition constructor the live model
\* and the caller's weights and constraints, as with subset_model false.
C19_SubsetNoOpWhenMinimal ==
    (FlatGen /\ CallsOf("subset_model") # {}
       /\ calls[2].out.status = "return") =>
        LET sub == calls[2]
        IN /\ SubsetResult(sub.out.value) = sub.out.value
           /\ Needed(last.args) = 1..Len(last.args.objective_weights) =>
                 /\ sub.out.value = sub.kw
                 /\ \A i \in CallsOf("acqf_constructor") :
                       /\ calls[i].kw.model = model
                       /\ calls[i].kw.objective_weights
                              = last.args.objective_weights
                       /\ calls[i].kw.outcome_constraints
                              = last.args.outcome_constraints

\* C19 witness: the second outcome is needed only by an outcome constraint and
\* the constructor was invoked after the subsetter
C19_Witness ==
    /\ FlatGen /\ CallsOf("subset_model") # {} /\ CallsOf("acqf_constructor") # {}
    /\ last.args.objective_weights = <<1, 0>>
    /\ last.args.outcome_constraints # None
    /\ Needed(last.args) = {1, 2}

\* C20: best_point on a fitted facade (flat or modular) invokes the
\* recommender exactly once, with the facade itself and the caller's bounds,
\* objective weights, outcome constraints, linear constraints, fixed
\* features, gen options and target fidelities unchanged, returns what the
\* recommender returned, and invokes nothing else.
C20_BestPointDelegates ==
    [][(pc = "idle" /\ ~Unfitted /\ last'.op = "best_point") =>
         /\ Len(calls') = 1
         /\ calls'[1].fn = "best_point_recommender"
         /\ calls'[1].kw.model = [facade |-> "self"]
         /\ calls'[1].kw.bounds = last'.args.bounds
         /\ calls'[1].kw.objective_weights = last'.args.objective_weights
         /\ calls'[1].kw.outcome_constraints = last'.args.outcome_constraints
         /\ calls'[1].kw.linear_constraints = last'.args.linear_constraints
         /\ calls'[1].kw.fixed_features = last'.args.fixed_features
         /\ calls'[1].kw.model_gen_options = last'.args.model_gen_options
         /\ calls'[1].kw.target_fidelities = last'.args.target_fidelities
         /\ last'.out = calls'[1].out
         /\ UNCHANGED <<flatVars, flagVars, modVars>>]_vars

\* the classes a surrogate was made with
ClassesOf(sg) ==
    <<sg[1].origin, sg[1].botorch_model_class, sg[1].mll_class>>

\* C21 as stated: on the modular facade a configured surrogate or
\* acquisition-function class is never replaced; when none is configured
\* each is auto-selected at fit time, at most once, and cached, so that
\* after fit returns both are set and no later fit or gen changes either.
C21_SelectedAtFit ==
    [][variant = "modular" =>
         /\ m_surrogate # None =>
               m_surrogate' # None /\ ClassesOf(m_surrogate') = ClassesOf(m_surrogate)
         /\ m_botorch_acqf_class # None =>
               m_botorch_acqf_class' = m_botorch_acqf_class
         /\ (m_surrogate = None /\ m_surrogate' # None) => last'.op = "fit"
         /\ (m_botorch_acqf_class = None /\ m_botorch_acqf_class' # None) =>
               last'.op = "fit"
         /\ (last'.op = "fit" /\ last'.out.status = "return") =>
               m_surrogate' # None /\ m_botorch_acqf_class' # None
      ]_vars

\* C21 amended: a configured surrogate or acquisition-function class is
\* never replaced; when none is configured the surrogate is auto-selected
\* by the first fit and the acquisition-function class by the first gen,
\* each at most once, and cached: after a fit the surrogate is set, after a
\* gen the class is set, and no later fit or gen changes either choice.
C21_SelectedOnceAndCached ==
    [][variant = "modular" =>
         /\ m_surrogate # None =>
               m_surrogate' # None /\ ClassesOf(m_surrogate') = ClassesOf(m_surrogate)
         /\ m_botorch_acqf_class # None =>
               m_botorch_acqf_class' = m_botorch_acqf_class
         /\ (m_surrogate = None /\ m_surrogate' # None) =>
               /\ last'.op = "fit"
               /\ m_surrogate'[1].origin = "auto"
               /\ m_surrogate'[1].botorch_model_class
                      = choose_model_class(last'.args.data)
         /\ (m_botorch_acqf_class = None /\ m_botorch_acqf_class' # None) =>
               /\ last'.op = "gen"
               /\ m_botorch_acqf_class' = Some(choose_botorch_acqf_class)
         /\ last'.op = "fit" => m_surrogate' # None
         /\ last'.op = "gen" => m_botorch_acqf_class' # None
      ]_vars

\* C21 witness: a second fit, on data that would select another model class,
\* kept the surrogate selected by the first, and a gen selected the
\* acquisition-function class
C21_Witness ==
    /\ variant = "modular" /\ last.op = "fit" /\ last.out.status = "return"
    /\ m_surrogate # None /\ m_surrogate[1].origin = "auto"
    /\ m_surrogate[1].botorch_model_class # choose_model_class(last.args.data)
    /\ m_botorch_acqf_class = Some(choose_botorch_acqf_class)

\* C22: flat gen and best_point persist nothing: every step of either,
\* returning or failing, leaves the live model (the full model, not the
\* subsetted one), the stored observation set, the feature metadata and
\* the configured flags as they were, so the facade a following predict or
\* gen sees is the one from before the call.
C22_GenPersistsNothing ==
    [][(variant = "flat"
          /\ (pc # "idle" \/ last'.op \in {"gen", "best_point"}))
         => UNCHANGED <<flatVars, flagVars>>]_vars

\* C22 witness: gen returned after optimising over a model subsetted to one
\* outcome, and the live model still has both
C22_Witness ==
    /\ variant = "flat" /\ last.op = "gen" /\ last.out.status = "return"
    /\ calls[2].fn = "subset_model"
    /\ Len(calls[2].out.value.model[1].outputs) = 1
    /\ Len(model[1].outputs) = 2

\* C23: when flat update does not start cold (refit_on_update false, or
\* warm_start_refitting true) the model constructor receives refit flag
\* refit_on_update and a copy of the snapshot of the model that was live
\* just before the update, and the model it returns becomes the live model.
C23_WarmUpdate ==
    [][(variant = "flat" /\ pc = "idle" /\ model # None
          /\ last'.op = "update"
          /\ (~refit_on_update \/ warm_start_refitting))
         => /\ Len(calls') = 1
            /\ calls'[1].fn = "model_constructor"
            /\ calls'[1].kw.refit_model = Some(refit_on_update)
            /\ calls'[1].kw.state_dict = CopyOfLiveSnapshot(model)
            /\ calls'[1].out.status = "return" =>
                  /\ model' = Some(calls'[1].out.value)
                  /\ last'.out = Return(None)
       ]_vars

\* C23 witness: an update without refit installed a model on the new
\* observations that carries the parameters of the previous model
C23_Witness ==
    /\ variant = "flat" /\ last.op = "update" /\ last.out.status = "return"
    /\ ~refit_on_update
    /\ calls[1].kw.state_dict # None
    /\ model[1].Xs = XsOf(last.args.data)
    /\ model[1].params.data # last.args.data

\* C24: in every state of a flat facade, also after a fit or update whose
\* model constructor raised, the live model (when present) is the model
\* constructed from the stored Xs, Ys and Yvars; a failed fit or update
\* leaves the observation set and the model as they were before the call.
C24_ModelMatchesObservations ==
    [][variant = "flat" =>
         /\ model' # None =>
               /\ model'[1].Xs = Xs'
               /\ model'[1].Ys = Ys'
               /\ model'[1].Yvars = Yvars'
         /\ (pc = "idle" /\ last'.op \in {"fit", "update"}
               /\ last'.out.status = "raise") =>
               UNCHANGED <<Xs, Ys, Yvars, model>>
      ]_vars

\* C25: the fallback is not sticky: in every flat gen call, whatever the
\* earlier gen calls on the facade did, the first acquisition constructor
\* invocation receives exactly the caller's acquisition options, with no
\* qmc entry the caller did not give.
C25_FirstAttemptUsesCallerOptions ==
    [][(variant = "flat" /\ pc = "try" /\ Len(calls') > Len(calls)) =>
         LET c == calls'[Len(calls) + 1]
         IN /\ c.fn = "acqf_constructor"
            /\ CallsOf("acqf_constructor") = {}
            /\ c.kw.options = AcfOptionsOf(last.args)
       ]_vars

\* C25 witness: a gen call that ended in the fallback, whose first attempt
\* had been given the caller's options without qmc
C25_Witness ==
    /\ FlatGen /\ pc = "idle" /\ TookFallback
    /\ FirstOf("acqf_constructor").kw.options = ("mc_samples" :> 8)
    /\ calls[Len(calls)].fn = "acqf_optimizer"

\* C26: the fallback also applies when the caller's
\* acquisition_function_kwargs contain a qmc entry: once the first attempt
\* has raised the dimension-overflow error the acquisition constructor is
\* invoked a second time, with qmc=False in place of the caller's value,
\* and gen returns the result of that second attempt.
C26_FallbackOverridesCallerQmc ==
    (FlatGen /\ "qmc" \in DOMAIN AcfOptionsOf(last.args)
       /\ pc = "idle" /\ CallsOf("acqf_constructor") # {}) =>
        LET AC == CallsOf("acqf_constructor")
            i1 == CHOOSE i \in AC : \A j \in AC : i <= j
            i2 == CHOOSE i \in AC : \A j \in AC : j <= i
            e1 == AttemptError(i1)
        IN (e1 # None /\ IsOverflow(e1[1])) =>
              /\ Cardinality(AC) = 2
              /\ calls[i2].kw.options["qmc"] = FALSE
              /\ AttemptError(i2) = None =>
                    /\ last.out.status = "return"
                    /\ last.out.value.candidates.data
                           = calls[Len(calls)].out.value.candidates.data

\* C27: flat fit always starts cold and replaces the model: every fit, also
\* on a fitted facade and under every refit_on_update and
\* warm_start_refitting, invokes the model constructor once with no
\* snapshot of the previous model, and the model returned becomes the live
\* model.
C27_FitStartsCold ==
    [][(variant = "flat" /\ pc = "idle" /\ last'.op = "fit") =>
         /\ Len(calls') = 1
         /\ calls'[1].fn = "model_constructor"
         /\ calls'[1].kw.state_dict = None
         /\ calls'[1].out.status = "return" =>
               /\ model' = Some(calls'[1].out.value)
               /\ model'[1].params = [data |-> last'.args.data, start |-> "cold"]
               /\ last'.out = Return(None)
       ]_vars

\* C27 witness: a facade configured to refit warm on update was fitted, and
\* its model starts cold on the data of that fit
C27_Witness ==
    /\ variant = "flat" /\ last.op = "fit" /\ last.out.status = "return"
    /\ refit_on_update /\ warm_start_refitting
    /\ model[1].params = [data |-> last.args.data, start |-> "cold"]
    /\ last.args.data = 2

====
